---- MODULE Spec2Model ----
(***************************************************************************)
(* A model of metpy/xarray.py: the CF axis criteria, check_axis, the       *)
(* coordinate resolver of MetPyDataArrayAccessor, the _metpy_axis cache    *)
(* on the coordinates, and _reassign_quantity_indexer.                     *)
(*                                                                         *)
(* Python strings are TLA+ strings; Len and SubSeq apply to them.  A key   *)
(* that is not in an attribute dictionary is the value Missing.  A         *)
(* coordinate of the variable is named by its position in coords, and the  *)
(* position 0 stands for Python's None.                                    *)
(***************************************************************************)
EXTENDS Integers, Sequences, FiniteSets, TLC

VARIABLES
    coords,     \* data_array.coords: the sequence of coordinate records
    daName,     \* data_array.name: a string, or NoName for None
    marks,      \* marks[i]: the _metpy_axis attribute of coords[i], or Missing
    op,         \* the operation that produced this state
    arg,        \* its argument
    ret,        \* its return value (when err = "none")
    err,        \* the exception it raised, or "none"
    warns       \* the warnings it emitted: the sequence of cf axes warned about

vars == <<coords, daName, marks, op, arg, ret, err, warns>>

Missing == "<missing>"
NoName == "<None>"

(***************************************************************************)
(* Python string operations the code uses.                                 *)
(***************************************************************************)

\* a in b for two str objects: b contains a as a substring
IsSubstr(a, b) ==
    \E i \in 0..(Len(b) - Len(a)) : SubSeq(b, i + 1, i + Len(a)) = a

StartsWith(s, p) == Len(p) <= Len(s) /\ SubSeq(s, 1, Len(p)) = p

UpperChars == "ABCDEFGHIJKLMNOPQRSTUVWXYZ"
LowerChars == "abcdefghijklmnopqrstuvwxyz"

\* the lower-case letter of each upper-case letter
LowerOf ==
    [ch \in { SubSeq(UpperChars, i, i) : i \in 1..26 } |->
        LET i == CHOOSE j \in 1..26 : SubSeq(UpperChars, j, j) = ch
        IN  SubSeq(LowerChars, i, i)]

LowerChar(ch) == IF ch \in DOMAIN LowerOf THEN LowerOf[ch] ELSE ch

\* str.lower()
RECURSIVE Lower(_)
Lower(s) ==
    IF Len(s) = 0 THEN ""
    ELSE LowerChar(SubSeq(s, 1, 1)) \o Lower(SubSeq(s, 2, Len(s)))

(***************************************************************************)
(* The criteria table.                                                     *)
(***************************************************************************)

readable_to_cf_axes == [time |-> "T", vertical |-> "Z", y |-> "Y", x |-> "X"]

cf_to_readable_axes == [T |-> "time", Z |-> "vertical", Y |-> "y", X |-> "x"]

\* the keys of coord_lists, in the order the dict literal gives them
CfAxes == <<"T", "Z", "Y", "X">>

CfAxisSet == {"T", "Z", "Y", "X"}

\* A value of the table is a Python str or a Python set of str.
CritStr(s) == [isSet |-> FALSE, str |-> s, set |-> {}]
CritSet(S) == [isSet |-> TRUE, str |-> "", set |-> S]

VerticalStandardNames ==
    {"air_pressure", "height", "geopotential_height", "altitude",
     "model_level_number", "atmosphere_ln_pressure_coordinate",
     "atmosphere_sigma_coordinate",
     "atmosphere_hybrid_sigma_pressure_coordinate",
     "atmosphere_hybrid_height_coordinate", "atmosphere_sleve_coordinate",
     "height_above_geopotential_datum", "height_above_reference_ellipsoid",
     "height_above_mean_sea_level"}

AttrCriteria == <<"standard_name", "_CoordinateAxisType", "axis", "positive">>

coordinate_criteria ==
    ("standard_name" :>
        [time |-> CritStr("time"),
         vertical |-> CritSet(VerticalStandardNames),
         y |-> CritStr("projection_y_coordinate"),
         lat |-> CritStr("latitude"),
         x |-> CritStr("projection_x_coordinate"),
         lon |-> CritStr("longitude")])
 @@ ("_CoordinateAxisType" :>
        [time |-> CritStr("Time"),
         vertical |-> CritSet({"GeoZ", "Height", "Pressure"}),
         y |-> CritStr("GeoY"),
         lat |-> CritStr("Lat"),
         x |-> CritStr("GeoX"),
         lon |-> CritStr("Lon")])
 @@ ("axis" :>
        [time |-> CritStr("T"),
         vertical |-> CritStr("Z"),
         y |-> CritStr("Y"),
         x |-> CritStr("X")])
 @@ ("positive" :>
        [vertical |-> CritSet({"up", "down"})])

\* coordinate_criteria['units']
UnitCriteria ==
    [vertical |-> [match |-> "dimensionality", units |-> "Pa"],
     lat |-> [match |-> "name",
              units |-> {"degree_north", "degree_N", "degreeN",
                         "degrees_north", "degrees_N", "degreesN"}],
     lon |-> [match |-> "name",
              units |-> {"degree_east", "degree_E", "degreeE",
                         "degrees_east", "degrees_E", "degreesE"}]]

(***************************************************************************)
(* coordinate_criteria['regular_expression'], applied with re.match to the *)
(* lower-cased name.  Each pattern is a choice of literal prefixes         *)
(* followed by starred character classes, which match the empty string,    *)
(* so re.match succeeds exactly when the name starts with one of the       *)
(* prefixes.                                                               *)
(***************************************************************************)
RegexPrefixes ==
    [time |-> {"time"},
     vertical |-> {"bottom_top", "sigma", "hght", "height", "altitude",
                   "depth", "isobaric", "pres", "isotherm"},
     y |-> {"y"},
     lat |-> {"lat", "xlat"},
     x |-> {"x"},
     lon |-> {"lon", "xlon"}]

ReMatch(axis, s) == \E p \in RegexPrefixes[axis] : StartsWith(s, p)

(***************************************************************************)
(* The units collaborator: the unit strings the registry defines, each     *)
(* with its dimensionality and its size in the base unit of that           *)
(* dimensionality as a fraction num/den.  Any other string is undefined.   *)
(***************************************************************************)
UnitTable ==
    ("Pa"            :> [dim |-> "pressure", num |-> 1, den |-> 1])
 @@ ("hPa"           :> [dim |-> "pressure", num |-> 100, den |-> 1])
 @@ ("m"             :> [dim |-> "length", num |-> 1, den |-> 1])
 @@ ("km"            :> [dim |-> "length", num |-> 1000, den |-> 1])
 @@ ("dimensionless" :> [dim |-> "dimensionless", num |-> 1, den |-> 1])
 @@ ("percent"       :> [dim |-> "dimensionless", num |-> 1, den |-> 100])
 @@ ("degrees_north" :> [dim |-> "dimensionless", num |-> 1, den |-> 1])
 @@ ("degrees_east"  :> [dim |-> "dimensionless", num |-> 1, den |-> 1])

UnitDefined(u) == u \in DOMAIN UnitTable

\* units.get_dimensionality(u): None is dimensionless, an unknown string raises
GetDimensionality(u) ==
    IF u = Missing THEN "dimensionless"
    ELSE IF UnitDefined(u) THEN UnitTable[u].dim
    ELSE "UndefinedUnitError"

(***************************************************************************)
(* A coordinate variable: its name, its attributes (every attribute the    *)
(* code reads is a key, Missing when the dictionary has no such key) and   *)
(* whether its name is one of its own dimension names.                     *)
(***************************************************************************)
Coord(name, sn, cat, ax, pos, un, isDim) ==
    [name |-> name,
     attrs |-> ("standard_name" :> sn) @@ ("_CoordinateAxisType" :> cat)
               @@ ("axis" :> ax) @@ ("positive" :> pos) @@ ("units" :> un),
     isDim |-> isDim]

\* attrs.get(key, default)
AttrsGet(attrs, key, default) ==
    IF attrs[key] = Missing THEN default ELSE attrs[key]

\* coordinate_criteria[criterion].get(axis, set())
CritGet(criterion, axis) ==
    IF axis \in DOMAIN coordinate_criteria[criterion]
    THEN coordinate_criteria[criterion][axis]
    ELSE CritSet({})

\* value in entry, where entry is a str (substring test) or a set (membership)
PyIn(value, entry) ==
    IF entry.isSet THEN value \in entry.set ELSE IsSubstr(value, entry.str)

(***************************************************************************)
(* check_axis                                                              *)
(***************************************************************************)

\* one pass of the loop over the four attribute criteria
AttrCriterionHit(var, criterion, axis) ==
    PyIn(AttrsGet(var.attrs, criterion, "absent"), CritGet(criterion, axis))

AttrStage(var, axis) ==
    \E i \in 1..Len(AttrCriteria) : AttrCriterionHit(var, AttrCriteria[i], axis)

\* the condition of the units test: "true", "false", or the exception raised
UnitStage(var, axis) ==
    IF axis \notin DOMAIN UnitCriteria THEN "false"
    ELSE IF UnitCriteria[axis].match = "dimensionality"
    THEN IF GetDimensionality(var.attrs["units"]) = "UndefinedUnitError"
         THEN "UndefinedUnitError"
         ELSE IF GetDimensionality(var.attrs["units"])
                 = GetDimensionality(UnitCriteria[axis].units)
         THEN "true" ELSE "false"
    ELSE IF var.attrs["units"] \in UnitCriteria[axis].units
         THEN "true" ELSE "false"

NameStage(var, axis) == ReMatch(axis, Lower(var.name))

\* the body of the loop with the name test inside the try block, so that
\* UndefinedUnitError skips it
CheckAxisOneNameInsideTry(var, axis) ==
    \/ AttrStage(var, axis)
    \/ /\ UnitStage(var, axis) # "UndefinedUnitError"
       /\ \/ UnitStage(var, axis) = "true"
          \/ NameStage(var, axis)

\* the body of the loop for one axis; UndefinedUnitError is caught and passed
CheckAxisOne(var, axis) ==
    \/ AttrStage(var, axis)
    \/ UnitStage(var, axis) = "true"
    \/ NameStage(var, axis)

\* check_axis(var, *axes), axes a sequence
check_axis(var, axes) ==
    \E i \in 1..Len(axes) : CheckAxisOne(var, axes[i])

(***************************************************************************)
(* MetPyDataArrayAccessor._generate_coordinate_map and                     *)
(* _resolve_axis_conflict.  A list of coordinates is a sequence of         *)
(* positions in cs.                                                        *)
(***************************************************************************)
axes_to_check ==
    [T |-> <<"time">>, Z |-> <<"vertical">>,
     Y |-> <<"y", "lat">>, X |-> <<"x", "lon">>]

Positions(cs) == [i \in 1..Len(cs) |-> i]

\* coord_lists[axis] after the loop over the coordinates
CoordList(cs, axis) ==
    SelectSeq(Positions(cs), LAMBDA i : check_axis(cs[i], axes_to_check[axis]))

ProjectionCoords(cs, axis, lst) ==
    SelectSeq(lst, LAMBDA i : check_axis(cs[i], <<"x", "y">>))

DimensionCoords(cs, lst) == SelectSeq(lst, LAMBDA i : cs[i].isDim)

\* _resolve_axis_conflict without the dimension rule
ResolveAxisConflictProjectionOnly(cs, name, axis, lst) ==
    LET projection_coords == ProjectionCoords(cs, axis, lst)
    IN  IF axis \in {"Y", "X"} /\ Len(projection_coords) = 1
        THEN [list |-> projection_coords, out |-> "ok"]
        ELSE IF name = NoName
        THEN [list |-> lst, out |-> "TypeError"]
        ELSE [list |-> <<>>, out |-> "warn"]

\* _resolve_axis_conflict with the dimension rule tried before the projection
\* rule
ResolveAxisConflictDimensionFirst(cs, name, axis, lst) ==
    LET projection_coords == ProjectionCoords(cs, axis, lst)
        dimension_coords == DimensionCoords(cs, lst)
    IN  IF Len(dimension_coords) = 1
        THEN [list |-> dimension_coords, out |-> "ok"]
        ELSE IF axis \in {"Y", "X"} /\ Len(projection_coords) = 1
        THEN [list |-> projection_coords, out |-> "ok"]
        ELSE IF name = NoName
        THEN [list |-> lst, out |-> "TypeError"]
        ELSE [list |-> <<>>, out |-> "warn"]

\* _resolve_axis_conflict: the new coord_lists[axis] and how the call ended:
\* "ok" (returned early), "warn" (warned and emptied the list), or "TypeError"
\* (the message concatenates data_array.name, which is None)
ResolveAxisConflict(cs, name, axis, lst) ==
    LET projection_coords == ProjectionCoords(cs, axis, lst)
        dimension_coords == DimensionCoords(cs, lst)
    IN  IF axis \in {"Y", "X"} /\ Len(projection_coords) = 1
        THEN [list |-> projection_coords, out |-> "ok"]
        ELSE IF Len(dimension_coords) = 1
        THEN [list |-> dimension_coords, out |-> "ok"]
        ELSE IF name = NoName
        THEN [list |-> lst, out |-> "TypeError"]
        ELSE [list |-> <<>>, out |-> "warn"]

\* the position in CfAxes of a cf axis
AxisPos(a) == CHOOSE k \in 1..Len(CfAxes) : CfAxes[k] = a

\* a dict keyed by the four cf axes, built entry by entry
PerAxis(F(_)) == [T |-> F("T"), Z |-> F("Z"), Y |-> F("Y"), X |-> F("X")]

\* _generate_coordinate_map: the map (0 for None), the warnings emitted and
\* the exception raised.  lists is coord_lists after the loop over the
\* coordinates; res[a] is coord_lists[a] once the conflict of a, if it has
\* one, is handled.  The loop over axis_conflicts stops at the first axis
\* that raises; the axes before it have warned.
GenerateCoordinateMap(cs, name) ==
    LET Finish(lists, res, raising, stop) ==
            [map |-> PerAxis(LAMBDA a :
                        IF Len(res[a].list) > 0 THEN res[a].list[1] ELSE 0),
             lists |-> lists,
             warns |-> SelectSeq(CfAxes, LAMBDA a :
                          AxisPos(a) < stop /\ res[a].out = "warn"),
             err |-> IF Len(raising) > 0 THEN "TypeError" ELSE "none"]
        Conflicts(lists, res, raising) ==
            Finish(lists, res, raising,
                   IF Len(raising) > 0 THEN AxisPos(raising[1])
                   ELSE Len(CfAxes) + 1)
        Resolve(lists, res) ==
            Conflicts(lists, res,
                      SelectSeq(CfAxes, LAMBDA a : res[a].out = "TypeError"))
        Scan(lists) ==
            Resolve(lists,
                    PerAxis(LAMBDA a :
                        IF Len(lists[a]) > 1
                        THEN ResolveAxisConflict(cs, name, a, lists[a])
                        ELSE [list |-> lists[a], out |-> "ok"]))
    IN  Scan(PerAxis(LAMBDA a : CoordList(cs, a)))

(***************************************************************************)
(* The _metpy_axis cache: _metpy_axis_search, _axis, assign_coordinates.   *)
(***************************************************************************)

\* the first coordinate, in the order of coords, that carries the mark
\* cf_axis; 0 when none does
CachedCoord(m, cf_axis) ==
    IF \E i \in DOMAIN m : m[i] = cf_axis
    THEN CHOOSE i \in DOMAIN m :
            m[i] = cf_axis /\ \A j \in DOMAIN m : m[j] = cf_axis => i <= j
    ELSE 0

\* one pass of the loop over coord_map.items(): the mark axis is written on
\* coord_map[axis] unless some coordinate carries the mark axis
MarkOne(m, map, axis) ==
    IF map[axis] # 0 /\ \A i \in DOMAIN m : m[i] # axis
    THEN [m EXCEPT ![map[axis]] = axis]
    ELSE m

\* the loop over coord_map.items(), from the k-th cf axis on
RECURSIVE MarkAll(_, _, _)
MarkAll(m, map, k) ==
    IF k > Len(CfAxes) THEN m
    ELSE MarkAll(MarkOne(m, map, CfAxes[k]), map, k + 1)

\* _metpy_axis_search(cf_axis): the marks it leaves, what it returns (0 for
\* None), the exception it raises and the warnings it emits
MetpyAxisSearch(cs, name, m, cf_axis) ==
    LET Parse(g) ==
            IF g.err # "none"
            THEN [marks |-> m, ret |-> 0, err |-> g.err, warns |-> g.warns,
                  parsed |-> TRUE]
            ELSE [marks |-> MarkAll(m, g.map, 1), ret |-> g.map[cf_axis],
                  err |-> "none", warns |-> g.warns, parsed |-> TRUE]
        Search(cached) ==
            IF cached # 0
            THEN [marks |-> m, ret |-> cached, err |-> "none", warns |-> <<>>,
                  parsed |-> FALSE]
            ELSE Parse(GenerateCoordinateMap(cs, name))
    IN  Search(CachedCoord(m, cf_axis))

NotAvailable == "AttributeError: attribute is not available"
NotInterpretable == "AttributeError: not an interpretable axis"

\* _axis with the message of an absent axis given for every failure
AxisOutcomeOneMessage(cs, name, m, axis) ==
    IF axis \in DOMAIN readable_to_cf_axes
    THEN LET Found(s) ==
                 IF s.err = "none" /\ s.ret = 0
                 THEN [s EXCEPT !.err = NotAvailable]
                 ELSE s
         IN  Found(MetpyAxisSearch(cs, name, m, readable_to_cf_axes[axis]))
    ELSE [marks |-> m, ret |-> 0, err |-> NotAvailable, warns |-> <<>>,
          parsed |-> FALSE]

\* _axis(axis)
AxisOutcome(cs, name, m, axis) ==
    IF axis \in DOMAIN readable_to_cf_axes
    THEN LET Found(s) ==
                 IF s.err = "none" /\ s.ret = 0
                 THEN [s EXCEPT !.err = NotAvailable]
                 ELSE s
         IN  Found(MetpyAxisSearch(cs, name, m, readable_to_cf_axes[axis]))
    ELSE [marks |-> m, ret |-> 0, err |-> NotInterpretable, warns |-> <<>>,
          parsed |-> FALSE]

(***************************************************************************)
(* The argument of assign_coordinates: None, or a dict whose entries (in   *)
(* insertion order) are each a cf axis and a value that is None, a         *)
(* coordinate name or a coordinate object.                                 *)
(***************************************************************************)
NoMapping == [isNone |-> TRUE, entries |-> <<>>]
Mapping(entries) == [isNone |-> FALSE, entries |-> entries]

ValNone == [kind |-> "none", name |-> "", pos |-> 0]
ValName(n) == [kind |-> "name", name |-> n, pos |-> 0]
ValObject(i) == [kind |-> "object", name |-> "", pos |-> i]

Entry(axis, val) == [axis |-> axis, val |-> val]

\* data_array[name], for the name of a coordinate
GetItem(cs, n) == CHOOSE i \in 1..Len(cs) : cs[i].name = n

\* _fixup_coordinate_map: every name becomes the coordinate it names
FixupCoordinateMap(cs, entries) ==
    [k \in 1..Len(entries) |->
        IF entries[k].val.kind = "name"
        THEN Entry(entries[k].axis, ValObject(GetItem(cs, entries[k].val.name)))
        ELSE entries[k]]

\* the loop over the mapping, from its k-th entry on
RECURSIVE AssignAll(_, _, _)
AssignAll(m, fixed, k) ==
    IF k > Len(fixed) THEN m
    ELSE AssignAll(IF fixed[k].val.kind # "none"
                   THEN [m EXCEPT ![fixed[k].val.pos] = fixed[k].axis]
                   ELSE m,
                   fixed, k + 1)

\* if coordinates: None and the empty dict are falsy
Truthy(coordinates) == ~coordinates.isNone /\ Len(coordinates.entries) > 0

\* AssignMarks with the clearing loop stopping after the first coordinate
AssignMarksClearsFirstOnly(cs, m, coordinates) ==
    IF Truthy(coordinates)
    THEN AssignAll(m, FixupCoordinateMap(cs, coordinates.entries), 1)
    ELSE [i \in DOMAIN m |-> IF i = 1 THEN Missing ELSE m[i]]

\* the marks assign_coordinates(coordinates) leaves
AssignMarks(cs, m, coordinates) ==
    IF Truthy(coordinates)
    THEN AssignAll(m, FixupCoordinateMap(cs, coordinates.entries), 1)
    ELSE [i \in DOMAIN m |-> Missing]

\* the caller's dict after the call: _fixup_coordinate_map rewrote it in place
AssignArgAfter(cs, coordinates) ==
    IF Truthy(coordinates)
    THEN Mapping(FixupCoordinateMap(cs, coordinates.entries))
    ELSE coordinates

(***************************************************************************)
(* The variables the model starts from: the coordinates of a DataArray are *)
(* drawn from a catalog, kept in the catalog's order, at most MaxCoords of *)
(* them; the DataArray is named or not.                                    *)
(***************************************************************************)
MaxCoords == 2
MaxAssign == 1

Catalog ==
    << Coord("time", "time", Missing, Missing, Missing, Missing, TRUE),
       Coord("isobaric", "air_pressure", Missing, Missing, Missing, "hPa", TRUE),
       Coord("y", "projection_y_coordinate", Missing, Missing, Missing, "m", TRUE),
       Coord("lat", Missing, Missing, Missing, Missing, "degrees_north", FALSE),
       Coord("latitude", "latitude", Missing, Missing, Missing, Missing, FALSE),
       Coord("XLAT", Missing, Missing, Missing, Missing, Missing, FALSE),
       Coord("lon", "longitude", Missing, Missing, Missing, "degrees_east", TRUE) >>

\* the members of a set of positions, in increasing order
RECURSIVE Ascending(_)
Ascending(S) ==
    IF S = {} THEN <<>>
    ELSE LET lo == CHOOSE i \in S : \A j \in S : i <= j
         IN  <<lo>> \o Ascending(S \ {lo})

\* the sets of at most n members of S
RECURSIVE SubsetsUpTo(_, _)
SubsetsUpTo(S, n) ==
    IF n = 0 THEN {{}}
    ELSE LET smaller == SubsetsUpTo(S, n - 1)
         IN  smaller \cup { T \cup {e} : T \in smaller, e \in S }

\* the coordinate collections of 1 to n members of the catalog, the names
\* distinct (the collection is keyed by name)
CoordSets(catalog, n) ==
    { [k \in 1..Len(Ascending(S)) |-> catalog[Ascending(S)[k]]] :
        S \in { T \in SubsetsUpTo(1..Len(catalog), n) :
                    /\ T # {}
                    /\ \A i, j \in T : i # j => catalog[i].name # catalog[j].name } }

DataArrayNames == {"temperature", NoName}

\* the sequences of at most n distinct members of S, none empty
RECURSIVE SeqsUpTo(_, _)
SeqsUpTo(S, n) ==
    IF n = 0 THEN {}
    ELSE { <<e>> : e \in S }
         \cup { q \o <<e>> : q \in SeqsUpTo(S, n - 1), e \in S }

\* the mappings a caller can pass for a variable with the coordinates cs:
\* None, the empty dict, and the dicts of at most MaxAssign entries with
\* distinct keys
MappingValues(cs) ==
    {ValNone} \cup { ValName(cs[i].name) : i \in 1..Len(cs) }
              \cup { ValObject(i) : i \in 1..Len(cs) }

MappingInputs(cs) ==
    {NoMapping, Mapping(<<>>)}
    \cup { Mapping(q) :
            q \in { r \in SeqsUpTo({ Entry(a, v) : a \in CfAxisSet,
                                                   v \in MappingValues(cs) },
                                   MaxAssign) :
                      \A i, j \in 1..Len(r) : i # j => r[i].axis # r[j].axis } }

\* the axis identifiers a caller asks _axis for
AxisIdentifiers == {"time", "vertical", "y", "x", "lat"}

Init ==
    /\ coords \in CoordSets(Catalog, MaxCoords)
    /\ daName \in DataArrayNames
    /\ marks = [i \in 1..Len(coords) |-> Missing]
    /\ op = "init"
    /\ arg = "none"
    /\ ret = 0
    /\ err = "none"
    /\ warns = <<>>

\* data_array.metpy.assign_coordinates(coordinates)
AssignCoordinates(coordinates) ==
    /\ marks' = AssignMarks(coords, marks, coordinates)
    /\ op' = "assign_coordinates"
    /\ arg' = AssignArgAfter(coords, coordinates)
    /\ ret' = 0
    /\ err' = "none"
    /\ warns' = <<>>
    /\ UNCHANGED <<coords, daName>>

\* data_array.metpy.time, .vertical, .y, .x, and _axis with any identifier
Axis(axis) ==
    \E r \in {AxisOutcome(coords, daName, marks, axis)} :
        /\ marks' = r.marks
        /\ op' = "_axis"
        /\ arg' = axis
        /\ ret' = r.ret
        /\ err' = r.err
        /\ warns' = r.warns
        /\ UNCHANGED <<coords, daName>>

Next ==
    \/ \E coordinates \in MappingInputs(coords) : AssignCoordinates(coordinates)
    \/ \E axis \in AxisIdentifiers : Axis(axis)

Spec == Init /\ [][Next]_vars

(***************************************************************************)
(* Properties of the cache, checked under Spec.                            *)
(***************************************************************************)

\* the step is a lookup of one of the four kinds that misses the cache
IsMiss ==
    /\ op' = "_axis"
    /\ arg' \in DOMAIN readable_to_cf_axes
    /\ CachedCoord(marks, readable_to_cf_axes[arg']) = 0

\* the state follows assign_coordinates with None or an empty mapping
JustCleared == op = "assign_coordinates" /\ ~Truthy(arg)

\* C1: a lookup that misses the cache leaves the mark of every coordinate
\* that carried one as it was.
C1_MissKeepsExistingMarks ==
    [][IsMiss =>
        \A i \in DOMAIN marks : marks[i] # Missing => marks'[i] = marks[i]]_vars

\* C2: for every axis kind at most one coordinate of the variable carries
\* its mark.
C2_OneCoordinatePerKind ==
    \A K \in CfAxisSet : Cardinality({ i \in DOMAIN marks : marks[i] = K }) <= 1

\* C3: a lookup of the kind just looked up returns what the first returned
\* and leaves the marks as the first left them.
C3_LookupTwiceIsStable ==
    [][(op = "_axis" /\ op' = "_axis" /\ arg' = arg) =>
        (ret' = ret /\ err' = err /\ marks' = marks)]_vars

\* C4: after assign_coordinates({K: c}), c a coordinate of the variable, the
\* next lookup of K returns c.
C4_AssignedCoordinateIsReturned ==
    [][(/\ op = "assign_coordinates"
        /\ Truthy(arg)
        /\ Len(arg.entries) = 1
        /\ arg.entries[1].val.kind = "object"
        /\ op' = "_axis"
        /\ arg' \in DOMAIN readable_to_cf_axes
        /\ readable_to_cf_axes[arg'] = arg.entries[1].axis) =>
        (err' = "none" /\ ret' = arg.entries[1].val.pos)]_vars

\* C5: assign_coordinates with no mapping leaves no mark on any coordinate
\* and changes nothing else, and the lookup that follows it misses the cache
\* and ends as _generate_coordinate_map does for the kind: with the
\* coordinate it maps the kind to, with "not available" when it maps the
\* kind to None, with its exception when it raises.
C5_ClearForcesReparse ==
    [][/\ (op' = "assign_coordinates" /\ ~Truthy(arg')) =>
            /\ \A i \in DOMAIN marks' : marks'[i] = Missing
            /\ DOMAIN marks' = DOMAIN marks
            /\ coords' = coords
            /\ daName' = daName
       /\ (JustCleared /\ op' = "_axis" /\ arg' \in DOMAIN readable_to_cf_axes) =>
            LET g == GenerateCoordinateMap(coords, daName)
                K == readable_to_cf_axes[arg']
            IN  /\ IsMiss
                /\ IF g.err # "none" THEN err' = g.err
                   ELSE /\ ret' = g.map[K]
                        /\ err' = IF g.map[K] = 0 THEN NotAvailable ELSE "none"
      ]_vars

\* a clear has acted on a variable with two coordinates, and the lookup of y
\* that follows it parses the coordinates and returns one
C5_Witness ==
    /\ JustCleared
    /\ Len(coords) = 2
    /\ ENABLED (Axis("y") /\ ret' # 0 /\ marks' # marks)

\* the kind has two or more candidates and neither the projection rule nor
\* the dimension rule leaves exactly one
Ambiguous(cs, K) ==
    LET lst == CoordList(cs, K)
    IN  /\ Len(lst) > 1
        /\ ~(K \in {"Y", "X"} /\ Len(ProjectionCoords(cs, K, lst)) = 1)
        /\ Len(DimensionCoords(cs, lst)) # 1

Count(seq, e) == Cardinality({ k \in 1..Len(seq) : seq[k] = e })

\* C7: a lookup that parses a variable with an ambiguous kind K raises no
\* error of the resolver, warns exactly once for K, writes no mark K, and
\* reports K as not available when K is the kind asked for.
C7_AmbiguityIsRecoverable ==
    [][IsMiss =>
        \A K \in CfAxisSet : Ambiguous(coords, K) =>
            /\ err' \in {"none", NotAvailable}
            /\ Count(warns', K) = 1
            /\ \A i \in DOMAIN marks : marks'[i] = K => marks[i] = K
            /\ (readable_to_cf_axes[arg'] = K => ret' = 0 /\ err' = NotAvailable)
      ]_vars

(***************************************************************************)
(* The resolver on its own: _resolve_axis_conflict and                     *)
(* _generate_coordinate_map applied to variables whose coordinates are     *)
(* drawn from a wider catalog, each coordinate once as a dimension         *)
(* coordinate and once not.                                                *)
(***************************************************************************)
ResolveProfiles ==
    << <<"time", "time", Missing, Missing, Missing, Missing>>,
       <<"time1", Missing, Missing, Missing, Missing, Missing>>,
       <<"isobaric", "air_pressure", Missing, Missing, Missing, "hPa">>,
       <<"height", Missing, Missing, Missing, "up", "m">>,
       <<"y", "projection_y_coordinate", Missing, Missing, Missing, "m">>,
       <<"x", "projection_x_coordinate", Missing, Missing, Missing, "m">>,
       <<"lat", Missing, Missing, Missing, Missing, "degrees_north">>,
       <<"latitude", "latitude", Missing, Missing, Missing, Missing>>,
       <<"XLAT", Missing, Missing, Missing, Missing, Missing>>,
       <<"lon", "longitude", Missing, Missing, Missing, "degrees_east">>,
       <<"XLONG", Missing, Missing, Missing, Missing, Missing>>,
       <<"rlat", "latitude", Missing, "X", Missing, Missing>> >>

ResolveCatalog ==
    [k \in 1..(2 * Len(ResolveProfiles)) |->
        LET p == ResolveProfiles[(k + 1) \div 2]
        IN  Coord(p[1], p[2], p[3], p[4], p[5], p[6], k % 2 = 1)]

InitResolve ==
    /\ coords \in CoordSets(ResolveCatalog, MaxCoords)
    /\ daName \in DataArrayNames
    /\ marks = [i \in 1..Len(coords) |-> Missing]
    /\ op = "init"
    /\ arg = "none"
    /\ ret = 0
    /\ err = "none"
    /\ warns = <<>>

\* self._resolve_axis_conflict(axis, coord_lists), called for an axis of
\* axis_conflicts: ret is coord_lists[axis] on return
ResolveConflict(axis) ==
    /\ Len(CoordList(coords, axis)) > 1
    /\ LET r == ResolveAxisConflict(coords, daName, axis, CoordList(coords, axis))
       IN  /\ ret' = r.list
           /\ err' = IF r.out = "TypeError" THEN "TypeError" ELSE "none"
           /\ warns' = IF r.out = "warn" THEN <<axis>> ELSE <<>>
    /\ op' = "_resolve_axis_conflict"
    /\ arg' = axis
    /\ UNCHANGED <<coords, daName, marks>>

\* self._generate_coordinate_map(): ret is the coord_map returned
GenerateMap ==
    /\ LET g == GenerateCoordinateMap(coords, daName)
       IN  /\ ret' = g.map
           /\ err' = g.err
           /\ warns' = g.warns
    /\ op' = "_generate_coordinate_map"
    /\ arg' = "none"
    /\ UNCHANGED <<coords, daName, marks>>

NextResolve ==
    \/ \E axis \in CfAxisSet : ResolveConflict(axis)
    \/ GenerateMap

SpecResolve == InitResolve /\ [][NextResolve]_vars

\* the candidates of the kind that satisfy the criteria of one readable axis
Satisfying(cs, lst, readable) ==
    SelectSeq(lst, LAMBDA i : CheckAxisOne(cs[i], readable))

CheckNames == {"foo", "XLAT", "pressure", "Time2"}
CheckStandardNames ==
    {Missing, "time", "latitude", "air_pressure", "projection_y_coordinate",
     "coordinate", ""}
CheckAxisTypes == {Missing, "Time", "Lat", "Geo"}
CheckAxisAttrs == {Missing, "Y", "X", "z"}
CheckPositives == {Missing, "up", "upward"}
CheckUnits == {Missing, "hPa", "m", "degrees_north", "sigma_level"}

CheckAxesInputs ==
    { <<a>> : a \in DOMAIN RegexPrefixes }
    \cup { <<"y", "lat">>, <<"x", "lon">>, <<"x", "y">>, <<"lat", "lon">>,
           <<"lon", "lat">> }

InitCheckAxis ==
    /\ coords \in { <<Coord(n, sn, cat, ax, pos, un, FALSE)>> :
                      n \in CheckNames, sn \in CheckStandardNames,
                      cat \in CheckAxisTypes, ax \in CheckAxisAttrs,
                      pos \in CheckPositives, un \in CheckUnits }
    /\ daName = "temperature"
    /\ marks = <<Missing>>
    /\ op = "init"
    /\ arg = "none"
    /\ ret = 0
    /\ err = "none"
    /\ warns = <<>>

\* check_axis(var, *axes) for the coordinate var = coords[1]
CheckAxis(axes) ==
    /\ op' = "check_axis"
    /\ arg' = axes
    /\ ret' = check_axis(coords[1], axes)
    /\ err' = "none"
    /\ UNCHANGED <<coords, daName, marks, warns>>

NextCheckAxis == \E axes \in CheckAxesInputs : CheckAxis(axes)

SpecCheckAxis == InitCheckAxis /\ [][NextCheckAxis]_vars

\* the entries of the criteria table for a category and an axis
CritEntries(criterion, axis) ==
    IF CritGet(criterion, axis).isSet
    THEN CritGet(criterion, axis).set
    ELSE {CritGet(criterion, axis).str}

\* C8: for every attribute category and every axis checked, the attribute
\* test succeeds exactly when the coordinate's value of the attribute is one
\* of the table's entries for the category and the axis; and check_axis
\* returns true when the value is one.
C8_AttributeStageIsExactMembership ==
    op = "check_axis" =>
        \A k \in 1..Len(arg) : \A c \in 1..Len(AttrCriteria) :
            LET criterion == AttrCriteria[c]
                isEntry == coords[1].attrs[criterion]
                               \in CritEntries(criterion, arg[k])
            IN  /\ AttrCriterionHit(coords[1], criterion, arg[k]) <=> isEntry
                /\ isEntry => ret = TRUE

(***************************************************************************)
(* _reassign_quantity_indexer(data, indexers) for a DataArray.             *)
(*                                                                         *)
(* A number is a fraction num/den in lowest terms.  An indexer value is    *)
(* None, a plain number, a quantity (a number with a unit of the           *)
(* registry) or a slice of three such parts.                               *)
(***************************************************************************)
RECURSIVE Gcd(_, _)
Gcd(a, b) == IF b = 0 THEN a ELSE Gcd(b, a % b)

PyNone == [kind |-> "none", num |-> 0, den |-> 1, unit |-> ""]
Plain(n) == [kind |-> "plain", num |-> n, den |-> 1, unit |-> ""]
Quantity(n, u) == [kind |-> "quantity", num |-> n, den |-> 1, unit |-> u]
Slice(a, b, c) == [kind |-> "slice", start |-> a, stop |-> b, step |-> c]

\* val.to(unit).m for a quantity val whose unit has the dimensionality of unit
ConvertedMagnitude(val, unit) ==
    LET n == val.num * UnitTable[val.unit].num * UnitTable[unit].den
        d == val.den * UnitTable[val.unit].den * UnitTable[unit].num
        g == Gcd(n, d)
    IN  [kind |-> "plain", num |-> n \div g, den |-> d \div g, unit |-> ""]

\* _to_magnitude(val, unit): the value returned and the exception raised.
\* None, a plain number and a slice have no attribute "to".
ToMagnitude(val, unit) ==
    IF val.kind = "quantity"
    THEN IF UnitTable[val.unit].dim = UnitTable[unit].dim
         THEN [val |-> ConvertedMagnitude(val, unit), err |-> "none"]
         ELSE [val |-> val, err |-> "DimensionalityError"]
    ELSE [val |-> val, err |-> "none"]

\* the unit string MetPyDataArrayAccessor.units parses for a coordinate
DeclaredUnit(c) ==
    IF AttrsGet(c.attrs, "units", "dimensionless") = "%" THEN "percent"
    ELSE AttrsGet(c.attrs, "units", "dimensionless")

\* data.dims, as far as the names of coordinates go
Dims(cs) == { cs[i].name : i \in { j \in 1..Len(cs) : cs[j].isDim } }

(***************************************************************************)
(* The dict indexers as CPython keeps it: the entries in insertion order,  *)
(* a deleted entry staying in its place as a dummy, a new key appended.    *)
(***************************************************************************)
Item(k, v) == [key |-> k, val |-> v, live |-> TRUE]

DictLive(d) == { i \in 1..Len(d) : d[i].live }

DictFind(d, k) ==
    IF \E i \in DictLive(d) : d[i].key = k
    THEN CHOOSE i \in DictLive(d) : d[i].key = k
    ELSE 0

DictGet(d, k) == d[DictFind(d, k)].val

DictSet(d, k, v) ==
    IF DictFind(d, k) # 0
    THEN [d EXCEPT ![DictFind(d, k)].val = v]
    ELSE Append(d, Item(k, v))

DictDel(d, k) == [d EXCEPT ![DictFind(d, k)].live = FALSE]

DictItems(d) == SelectSeq(d, LAMBDA e : e.live)

\* the lines "Handle slices of quantities" and "Handle quantities" for the
\* key coord_name.  indexers[coord_name] raises KeyError when the key is
\* gone; data[coord_name].metpy.units is evaluated, and raises for an
\* undefined unit string, whatever the value is.
ConvertEntry(cs, st, coord_name) ==
    IF DictFind(st.indexers, coord_name) = 0
    THEN [st EXCEPT !.err = "KeyError"]
    ELSE LET v == DictGet(st.indexers, coord_name)
             unit == DeclaredUnit(cs[GetItem(cs, coord_name)])
             start == ToMagnitude(v.start, unit)
             stop == ToMagnitude(v.stop, unit)
             step == ToMagnitude(v.step, unit)
             scalar == ToMagnitude(v, unit)
         IN  IF ~UnitDefined(unit)
             THEN [st EXCEPT !.err = "UndefinedUnitError"]
             ELSE IF v.kind = "slice"
             THEN IF start.err # "none" THEN [st EXCEPT !.err = start.err]
                  ELSE IF stop.err # "none" THEN [st EXCEPT !.err = stop.err]
                  ELSE IF step.err # "none" THEN [st EXCEPT !.err = step.err]
                  ELSE [st EXCEPT !.indexers =
                            DictSet(@, coord_name,
                                    Slice(start.val, stop.val, step.val))]
             ELSE IF scalar.err # "none" THEN [st EXCEPT !.err = scalar.err]
             ELSE [st EXCEPT !.indexers = DictSet(@, coord_name, scalar.val)]

\* the body of the loop for the key the iterator yields
ReassignEntry(cs, name, st, key) ==
    LET Rewrite(look) ==
            IF look.err # "none"
            THEN [st EXCEPT !.err = look.err, !.marks = look.marks,
                            !.warns = @ \o look.warns]
            ELSE ConvertEntry(cs,
                     [st EXCEPT !.marks = look.marks,
                                !.warns = @ \o look.warns,
                                !.indexers =
                                    DictDel(DictSet(@, cs[look.ret].name,
                                                    DictGet(@, key)),
                                            key)],
                     cs[look.ret].name)
    IN  IF key \notin Dims(cs) /\ key \in DOMAIN readable_to_cf_axes
        THEN Rewrite(AxisOutcome(cs, name, st.marks, key))
        ELSE ConvertEntry(cs, st, key)

(***************************************************************************)
(* for coord_name in indexers, while the body adds and deletes keys.  The  *)
(* iterator walks the entries by position.  Every build raises             *)
(* RuntimeError when the number of keys differs from the number at the     *)
(* start; a build from CPython 3.8 on also counts the keys it has yielded  *)
(* and raises RuntimeError when it finds one more than the dict had at the *)
(* start; an older build goes on to the appended entries.                  *)
(***************************************************************************)
PythonBuilds == {"before 3.8", "3.8 or later"}

\* the first live entry after position pos, 0 when there is none
NextEntry(d, pos) ==
    IF \E i \in DictLive(d) : i > pos
    THEN CHOOSE i \in DictLive(d) :
            i > pos /\ \A j \in DictLive(d) : j > pos => i <= j
    ELSE 0

RECURSIVE ReassignLoop(_, _, _, _)
ReassignLoop(cs, name, build, st) ==
    LET Continue(done) ==
            IF done.err # "none" THEN done
            ELSE ReassignLoop(cs, name, build, done)
        Yield(i) ==
            IF i = 0 THEN st
            ELSE IF build = "3.8 or later" /\ st.left = 0
            THEN [st EXCEPT !.err = "RuntimeError"]
            ELSE Continue(ReassignEntry(cs, name,
                                        [st EXCEPT !.pos = i, !.left = @ - 1],
                                        st.indexers[i].key))
    IN  IF Cardinality(DictLive(st.indexers)) # st.used
        THEN [st EXCEPT !.err = "RuntimeError"]
        ELSE Yield(NextEntry(st.indexers, st.pos))

\* _reassign_quantity_indexer(data, indexers), indexers a sequence of items
ReassignQuantityIndexer(cs, name, build, m, indexers) ==
    ReassignLoop(cs, name, build,
                 [indexers |-> indexers, pos |-> 0, left |-> Len(indexers),
                  used |-> Len(indexers), marks |-> m, warns |-> <<>>,
                  err |-> "none"])

(***************************************************************************)
(* sel on its own: the variables and the indexers it is called with.       *)
(***************************************************************************)
MaxKeys == 2

SelCatalog ==
    << Coord("pressure", "air_pressure", Missing, Missing, Missing, "hPa", TRUE),
       Coord("time", "time", Missing, Missing, Missing, Missing, TRUE),
       Coord("sigma", Missing, Missing, Missing, Missing, "sigma_level", TRUE),
       Coord("y", "projection_y_coordinate", Missing, Missing, Missing, "km", FALSE) >>

SelValues ==
    { Plain(500), Quantity(50000, "Pa"), Quantity(3, "m"),
      Slice(Quantity(1000, "hPa"), Quantity(500, "hPa"), PyNone),
      Slice(PyNone, Plain(500), PyNone) }

SelAxisKeys == {"time", "vertical", "y"}

SelKeys(cs) == SelAxisKeys \cup { cs[i].name : i \in 1..Len(cs) }

\* the dicts of at most MaxKeys items with distinct keys
IndexerInputs(cs) ==
    { q \in SeqsUpTo({ Item(k, v) : k \in SelKeys(cs), v \in SelValues },
                     MaxKeys) :
        \A i, j \in 1..Len(q) : i # j => q[i].key # q[j].key }

\* the marks of a variable nothing has looked up yet, and the marks one
\* lookup leaves on it
CacheStates(cs, name) ==
    { [i \in 1..Len(cs) |-> Missing] }
        \cup { MetpyAxisSearch(cs, name, [i \in 1..Len(cs) |-> Missing], a).marks :
                   a \in CfAxisSet }

InitSel ==
    /\ coords \in CoordSets(SelCatalog, MaxCoords)
    /\ daName \in DataArrayNames
    /\ marks \in CacheStates(coords, daName)
    /\ op = "init"
    /\ arg = "none"
    /\ ret = 0
    /\ err = "none"
    /\ warns = <<>>

\* data_array.metpy.sel(indexers), up to the call of DataArray.sel; ret is
\* the dict handed to DataArray.sel.  One call is followed from each state.
Sel(indexers, build) ==
    /\ op = "init"
    /\ \E out \in {ReassignQuantityIndexer(coords, daName, build, marks, indexers)} :
        /\ marks' = out.marks
        /\ op' = "sel"
        /\ arg' = [indexers |-> indexers, python |-> build]
        /\ ret' = IF out.err = "none" THEN DictItems(out.indexers) ELSE <<>>
        /\ err' = out.err
        /\ warns' = out.warns
        /\ UNCHANGED <<coords, daName>>

NextSel ==
    \E indexers \in IndexerInputs(coords) : \E build \in PythonBuilds :
        Sel(indexers, build)

SpecSel == InitSel /\ [][NextSel]_vars

\* the names of the coordinates of the variable
NativeNames(cs) == { cs[i].name : i \in 1..Len(cs) }

\* key is an axis kind and not the name of a dimension or coordinate
IsAxisKindKey(cs, key) ==
    key \in DOMAIN readable_to_cf_axes /\ key \notin NativeNames(cs)

\* the position of the coordinate the axis lookup gives for an axis kind,
\* 0 when the lookup fails
LookupOf(cs, name, key) ==
    IF GenerateCoordinateMap(cs, name).err # "none" THEN 0
    ELSE GenerateCoordinateMap(cs, name).map[readable_to_cf_axes[key]]

\* the native name an input key stands for, Missing when there is none
TargetName(cs, name, key) ==
    IF ~IsAxisKindKey(cs, key) THEN key
    ELSE IF LookupOf(cs, name, key) = 0 THEN Missing
    ELSE cs[LookupOf(cs, name, key)].name

\* C9: after sel on a DataArray whose axis-kind keys all resolve and whose
\* values all translate, the call returns a mapping with exactly one entry
\* per input entry and only native names as keys: every axis-kind key that
\* is not a dimension or coordinate name is replaced by the name of the
\* coordinate the lookup resolves it to, every other key is kept.
C9_KeysAreRewritten ==
    (/\ op = "sel"
     /\ \A i \in 1..Len(arg.indexers) :
            TargetName(coords, daName, arg.indexers[i].key) # Missing
     /\ err \notin {"UndefinedUnitError", "DimensionalityError"})
        => /\ err = "none"
           /\ Len(ret) = Len(arg.indexers)
           /\ \A i \in 1..Len(ret) : ret[i].key \in NativeNames(coords)
           /\ \A i \in 1..Len(arg.indexers) : \E j \in 1..Len(ret) :
                  ret[j].key = TargetName(coords, daName, arg.indexers[i].key)

\* the translation of a scalar part to the declared unit of coordinate c
TranslatedPart(v, c) ==
    IF v.kind = "quantity" THEN ConvertedMagnitude(v, DeclaredUnit(c)) ELSE v

\* the translation of an indexer value
Translated(v, c) ==
    IF v.kind = "slice"
    THEN Slice(TranslatedPart(v.start, c), TranslatedPart(v.stop, c),
               TranslatedPart(v.step, c))
    ELSE TranslatedPart(v, c)

\* the quantities among the parts of an indexer value
TaggedParts(v) ==
    IF v.kind = "slice"
    THEN { q \in {v.start, v.stop, v.step} : q.kind = "quantity" }
    ELSE IF v.kind = "quantity" THEN {v} ELSE {}

\* every quantity in v can be converted to the declared unit of c
Convertible(v, c) ==
    \A q \in TaggedParts(v) :
        /\ UnitDefined(DeclaredUnit(c))
        /\ UnitTable[q.unit].dim = UnitTable[DeclaredUnit(c)].dim

\* C10: after sel with one entry whose key stands for a coordinate and whose
\* tagged parts are convertible to that coordinate's declared unit, the
\* call returns the entry under the coordinate's name with a tagged scalar
\* turned into the magnitude of its conversion, an untagged scalar
\* unchanged, and the start, stop and step of a range translated each by
\* that rule, None staying None.
C10_ValuesAreTranslated ==
    (/\ op = "sel"
     /\ Len(arg.indexers) = 1
     /\ TargetName(coords, daName, arg.indexers[1].key) # Missing
     /\ Convertible(arg.indexers[1].val,
                    coords[GetItem(coords,
                        TargetName(coords, daName, arg.indexers[1].key))]))
        => /\ err = "none"
           /\ ret = << Item(TargetName(coords, daName, arg.indexers[1].key),
                            Translated(arg.indexers[1].val,
                                coords[GetItem(coords,
                                    TargetName(coords, daName,
                                               arg.indexers[1].key))])) >>

(***************************************************************************)
(* Requests by axis identifier: _axis (through coordinates and the         *)
(* properties time, vertical, y, x) and find_axis_name.                    *)
(***************************************************************************)

\* data_array.dims: the dimension coordinates' names, in the order of coords
DimSeq(cs) == SelectSeq([i \in 1..Len(cs) |-> cs[i].name],
                        LAMBDA n : n \in Dims(cs))

\* find_axis_name(axis) for a string axis: the marks it leaves, the name it
\* returns, the exception it raises and the warnings it emits
FindAxisNameOutcome(cs, name, m, axis) ==
    LET Named(r) ==
            IF r.err # "none" THEN [r EXCEPT !.ret = ""]
            ELSE [r EXCEPT !.ret = cs[r.ret].name]
    IN  IF axis \notin Dims(cs) /\ axis \in DOMAIN readable_to_cf_axes
        THEN Named(AxisOutcome(cs, name, m, axis))
        ELSE IF axis \in Dims(cs) /\ axis \in NativeNames(cs)
        THEN [marks |-> m, ret |-> axis, err |-> "none", warns |-> <<>>,
              parsed |-> FALSE]
        ELSE [marks |-> m, ret |-> "", err |-> "ValueError", warns |-> <<>>,
              parsed |-> FALSE]

RequestIdentifiers == AxisIdentifiers \cup {"isobaric", "level"}

AxisNumbers == {0, 1}

\* data_array.metpy.find_axis_name(axis), axis a string
FindAxisName(axis) ==
    \E r \in {FindAxisNameOutcome(coords, daName, marks, axis)} :
        /\ marks' = r.marks
        /\ op' = "find_axis_name"
        /\ arg' = axis
        /\ ret' = r.ret
        /\ err' = r.err
        /\ warns' = r.warns
        /\ UNCHANGED <<coords, daName>>

\* data_array.metpy.find_axis_name(axis), axis an integer: dims[axis]
FindAxisNumber(n) ==
    /\ op' = "find_axis_name of a number"
    /\ arg' = n
    /\ ret' = IF n < Len(DimSeq(coords)) THEN DimSeq(coords)[n + 1] ELSE ""
    /\ err' = IF n < Len(DimSeq(coords)) THEN "none" ELSE "IndexError"
    /\ warns' = <<>>
    /\ UNCHANGED <<coords, daName, marks>>

NextRequest ==
    \/ \E axis \in RequestIdentifiers : Axis(axis)
    \/ \E axis \in RequestIdentifiers : FindAxisName(axis)
    \/ \E n \in AxisNumbers : FindAxisNumber(n)

SpecRequest == Init /\ [][NextRequest]_vars

\* the kind the identifier names has no marked coordinate and the resolver
\* gives it none
ResolvesToNothing(cs, name, m, axis) ==
    /\ CachedCoord(m, readable_to_cf_axes[axis]) = 0
    /\ \E g \in {GenerateCoordinateMap(cs, name)} :
           g.err # "none" \/ g.map[readable_to_cf_axes[axis]] = 0

\* C11: a request (_axis or find_axis_name) for one of the four axis kinds
\* that resolves to no coordinate ends in the "attribute is not available"
\* error; a request with an identifier that is neither an axis kind nor the
\* name of a dimension or coordinate ends in a value-validation error; and
\* neither request changes a mark.
C11_AxisRequestErrors ==
    [][op' \in {"_axis", "find_axis_name"} =>
        /\ (/\ arg' \in DOMAIN readable_to_cf_axes
            /\ arg' \notin NativeNames(coords)
            /\ ResolvesToNothing(coords, daName, marks, arg'))
               => err' = NotAvailable /\ marks' = marks
        /\ (/\ arg' \notin DOMAIN readable_to_cf_axes
            /\ arg' \notin NativeNames(coords))
               => err' = "ValueError" /\ marks' = marks
      ]_vars

\* the request treats its identifier as an axis kind
AsksForKind ==
    /\ arg' \in DOMAIN readable_to_cf_axes
    /\ op' = "find_axis_name" => arg' \notin Dims(coords)

\* C11 as the code has it: a request for an axis kind that resolves to no
\* coordinate ends in the "attribute is not available" AttributeError, or in
\* the TypeError of the resolver when the resolver raises it, and the only
\* marks it changes are marks of other kinds the resolver mapped, written on
\* the mapped coordinate where no coordinate carried that kind; a request
\* with an identifier that is neither an axis kind nor a name of the variable
\* changes no mark and ends in ValueError from find_axis_name and in the
\* "not an interpretable axis" AttributeError from _axis.
C11_RequestErrorsByOperation ==
    [][op' \in {"_axis", "find_axis_name"} =>
        /\ (AsksForKind /\ ResolvesToNothing(coords, daName, marks, arg'))
               => \E g \in {GenerateCoordinateMap(coords, daName)} :
                    /\ err' = IF g.err # "none" THEN g.err ELSE NotAvailable
                    /\ g.err # "none" => marks' = marks
                    /\ \A i \in DOMAIN marks : marks'[i] # marks[i] =>
                          /\ marks'[i] \in CfAxisSet
                          /\ marks'[i] # readable_to_cf_axes[arg']
                          /\ g.map[marks'[i]] = i
                          /\ \A j \in DOMAIN marks : marks[j] # marks'[i]
        /\ (/\ arg' \notin DOMAIN readable_to_cf_axes
            /\ arg' \notin NativeNames(coords))
               => /\ marks' = marks
                  /\ err' = IF op' = "_axis" THEN NotInterpretable
                            ELSE "ValueError"
      ]_vars

\* an absent kind was asked for, the request marked another kind, and a
\* request with an unknown identifier can follow and fail
C11_Witness ==
    /\ op = "_axis"
    /\ err = NotAvailable
    /\ \E i \in DOMAIN marks : marks[i] # Missing
    /\ "level" \notin NativeNames(coords)
    /\ ENABLED (Axis("level") /\ err' = NotInterpretable)
    /\ ENABLED (FindAxisName("level") /\ err' = "ValueError")

(***************************************************************************)
(* The marks a miss leaves, checked under Spec.                            *)
(***************************************************************************)

\* C12: when a lookup misses the cache on a variable no coordinate of which
\* carries a mark, then after it every coordinate that
\* _generate_coordinate_map gave for one of the four kinds carries the mark
\* of that kind (so that the lookup of that kind which follows is a hit).
C12_MissMarksEveryMappedKind ==
    [][(IsMiss /\ \A i \in DOMAIN marks : marks[i] = Missing) =>
        \E g \in {GenerateCoordinateMap(coords, daName)} :
            g.err = "none" =>
                \A K \in CfAxisSet : g.map[K] # 0 => marks'[g.map[K]] = K
      ]_vars

(***************************************************************************)
(* The dimension rule, checked under SpecResolve.                          *)
(***************************************************************************)

\* the members of a list of positions
Members(lst) == { lst[k] : k \in 1..Len(lst) }

\* C13: when _resolve_axis_conflict is called for a kind whose projection
\* rule selects nothing (never for T and Z) and exactly one candidate is a
\* dimension coordinate, the list of the kind becomes that candidate alone,
\* with no warning and no error; whenever _resolve_axis_conflict returns, the
\* list holds no or one candidate, taken from the candidates of the kind; and
\* the map _generate_coordinate_map returns gives each kind None or one of
\* the coordinates that matched it.
C13_DimensionCoordinateWins ==
    /\ op = "_resolve_axis_conflict" =>
          /\ (/\ ~(/\ arg \in {"Y", "X"}
                   /\ Len(ProjectionCoords(coords, arg,
                                           CoordList(coords, arg))) = 1)
              /\ Len(DimensionCoords(coords, CoordList(coords, arg))) = 1)
                 => /\ ret = DimensionCoords(coords, CoordList(coords, arg))
                    /\ warns = <<>>
                    /\ err = "none"
          /\ err = "none" =>
                /\ Len(ret) <= 1
                /\ Members(ret) \subseteq Members(CoordList(coords, arg))
    /\ (op = "_generate_coordinate_map" /\ err = "none") =>
          \A K \in CfAxisSet :
              ret[K] = 0 \/ ret[K] \in Members(CoordList(coords, K))

\* two time coordinates, one of them a dimension coordinate, were resolved
\* to the dimension coordinate
C13_Witness ==
    /\ op = "_resolve_axis_conflict"
    /\ arg \in {"T", "Z"}
    /\ Len(coords) = 2
    /\ Len(CoordList(coords, arg)) = 2
    /\ \E i, j \in 1..2 :
          /\ i # j
          /\ coords[i].isDim
          /\ ~coords[j].isDim
          /\ ret = <<i>>
    /\ warns = <<>>

(***************************************************************************)
(* Units that cannot be parsed, checked under SpecCheckAxis.               *)
(***************************************************************************)

\* the coordinate declares a unit string the registry cannot parse
UnitUnparseable(var) ==
    var.attrs["units"] # Missing /\ ~UnitDefined(var.attrs["units"])

\* C14: for a coordinate whose unit string cannot be parsed, check_axis
\* raises nothing and returns true exactly when, for one of the axes listed,
\* an attribute test or the name pattern matches: the unit test counts as a
\* non-match, and the name test and the axes after it are still tried.
C14_UnparseableUnitIsNoMatch ==
    (op = "check_axis" /\ UnitUnparseable(coords[1])) =>
        /\ err = "none"
        /\ ret = (\E k \in 1..Len(arg) :
                     \/ AttrStage(coords[1], arg[k])
                     \/ NameStage(coords[1], arg[k]))

\* a coordinate with an unparseable unit and no matching attribute was
\* checked for vertical, whose unit test parses the unit, and matched by
\* its name
C14_Witness ==
    /\ op = "check_axis"
    /\ arg = <<"vertical">>
    /\ UnitUnparseable(coords[1])
    /\ UnitStage(coords[1], "vertical") = "UndefinedUnitError"
    /\ ~AttrStage(coords[1], "vertical")
    /\ NameStage(coords[1], "vertical")
    /\ ret = TRUE

====
